---- MODULE Spec2Model ----
(***************************************************************************)
(* The replay-stack conversation engine of src/convenience/conversation.ts *)
(* as a state machine.  One invocation handles one event: the pipeline is  *)
(* bot.use(session, convA, convB, downstream).  Every middleware call of   *)
(* the engine is one action; `task` is the call that runs next and `kont`  *)
(* holds the `next` callbacks of the scopes that are open.                 *)
(*                                                                         *)
(* The tree-navigation variant of part_002 is a second state machine over  *)
(* its own variables (SpecNav): the builder makes a heap of Conversation   *)
(* objects, and one invocation looks the persisted step up and runs the    *)
(* composer of that step, whose handlers call the navigation functions.    *)
(*                                                                         *)
(* The stack-with-identifier variant of part_001 is a third state machine  *)
(* (SpecP1): frames carry the identifier of their conversation, and the    *)
(* conversation middleware replays the stack through conversation.         *)
(* replayIndex.                                                            *)
(***************************************************************************)
EXTENDS Integers, Sequences, FiniteSets, TLC

VARIABLES
    session,    \* ctx.session.conversation: [def, id, stack]
    tree,       \* the tree built for conversation "a": scope -> entries
    ev,         \* the current event: the set of predicates it satisfies
    replay,     \* ctx[replay]: [set, frame, pc]
    active,     \* ctx[active]
    installed,  \* chain of ctx.conversation.enter closures, newest first
    task,       \* the middleware call that runs next
    kont,       \* `next` callbacks of the open scopes, innermost first
    enters,     \* enter calls made by downstream in this invocation
    err,        \* error that ended the invocation, "none" if none
    trace,      \* what happened in this invocation (observation only)
    startConv,  \* session.conversation when the invocation began
    stopAt,     \* entry whose handler ended the run without calling next
    prevStop,   \* stopAt of the previous invocation
    removed,    \* the entry a rebuilt tree no longer registers, if any,
                \* and the invocations begun since (1, or 2 for more)
    \* the tree-navigation variant (part_002)
    heap,         \* the Conversation objects the builder created
    nsession,     \* ctx.session.conversation: [def, active, step]
    target,       \* the step Conversation.middleware selected, 0 if none
    ntask,        \* the middleware call that runs next
    nev,          \* the current event: the set of predicates it satisfies
    nerr,         \* error that ended the invocation, "none" if none
    calls,        \* navigation calls made by the running handler
    lastCall,     \* the last navigation call and the state it found
    \* the stack-with-identifier variant (part_001)
    psession,     \* ctx.session.conversation: [def, stack, replayIndex]
    pmain,        \* main in ctx
    ptask,        \* the middleware call that runs next
    pkont,        \* conversations that await their `next`, innermost first
    perr,         \* error that ended the invocation, "none" if none
    pnextCalls,   \* calls of its `next` by each conversation, per invocation
    ptrace,       \* what happened in this invocation (observation only)
    pstart        \* session.conversation when the invocation began

cvars == <<session, tree, ev, replay, active, installed, task, kont, enters,
           err, trace, startConv, stopAt, prevStop, removed>>
nvars == <<heap, nsession, target, ntask, nev, nerr, calls, lastCall>>
pvars == <<psession, pmain, ptask, pkont, perr, pnextCalls, ptrace, pstart>>
vars == <<cvars, nvars, pvars>>

\* ------------------------------------------------------------ bounds
MaxEnters == 2

\* ------------------------------------------------------------ data
Preds == {"pA", "pB"}
Events == SUBSET Preds
Pipeline == <<"a", "b">>
EnterIds == {"a", "b", "x"}

NoConv == [def |-> FALSE, id |-> "", stack |-> <<>>]
NoReplay == [set |-> FALSE, frame |-> 0, pc |-> 0]
NoRemoved == [s |-> 0, i |-> 0, age |-> 0]
NoStop == [c |-> "", s |-> 0, i |-> 0, depth |-> 0]
Idle == [k |-> "idle", c |-> "", s |-> 0, i |-> 0]
Task(k, c, s, i) == [k |-> k, c |-> c, s |-> s, i |-> i]

\* StackFrame: { pc: number }
StackFrame(pc) == [pc |-> pc]

\* ------------------------------------------------------------ builder
\* One entry of a scope's composer: an optional predicate and the
\* middleware wrapped by trackpc, a user handler or a nested scope.
Leaf(h) == [gate |-> "none", kind |-> "leaf", h |-> h, s |-> 0]
Nested(gate, s) == [gate |-> gate, kind |-> "scope", h |-> "", s |-> s]

\* new ShallowConversation(...middleware): composer of trackpc(m) for each m
ShallowConversation(middleware) ==
    [j \in 1..Len(middleware) |-> Leaf(middleware[j])]

\* new Conversation(id): super() with no middleware; the root is scope 1
Conversation == <<ShallowConversation(<<>>)>>

\* register: a new scope is created and trackpc(scope) is added to the
\* composer of scope s under the operation op (the gate).
register(t, s, middleware, op) ==
    LET conversation == Len(t) + 1
    IN  [Append(t, ShallowConversation(middleware))
            EXCEPT ![s] = Append(@, Nested(op, conversation))]

use(t, s, middleware) == register(t, s, middleware, "none")
filter(t, s, pred, middleware) == register(t, s, middleware, pred)
\* wait: use(() => {}), a handler that never calls next
wait(t, s) == use(t, s, <<"wait">>)
\* the scope returned by the last builder call
Last(t) == Len(t)

\* root.use(h1); root.wait(); root.use(h2)
TreeFlat == use(wait(use(Conversation, 1, <<"h1">>), 1), 1, <<"h2">>)
\* root.use(h1).wait().use(h2)
TreeChain ==
    LET t1 == use(Conversation, 1, <<"h1">>)
        t2 == wait(t1, Last(t1))
    IN  use(t2, Last(t2), <<"h2">>)
\* root.use(h1); root.wait(); root.use(h2); root.wait(); root.use(h3)
TreeFlat3 == use(wait(TreeFlat, 1), 1, <<"h3">>)
\* root.use(h1).wait().use(h2).wait().use(h3)
TreeChain3 ==
    LET t1 == wait(TreeChain, Last(TreeChain))
    IN  use(t1, Last(t1), <<"h3">>)
\* root.filter(pA, hA).wait(); root.filter(pB, hB1, hB2).wait()
TreeBranch ==
    LET t1 == filter(Conversation, 1, "pA", <<"hA">>)
        t2 == wait(t1, Last(t1))
        t3 == filter(t2, 1, "pB", <<"hB1", "hB2">>)
    IN  wait(t3, Last(t3))
\* root.use(h1); root.use(h2).wait()
TreeNested ==
    LET t1 == use(Conversation, 1, <<"h1">>)
        t2 == use(t1, 1, <<"h2">>)
    IN  wait(t2, Last(t2))
\* conversation "b": root.use(hb).wait()
TreeB ==
    LET t1 == use(Conversation, 1, <<"hb">>)
    IN  wait(t1, Last(t1))

Trees == {TreeFlat, TreeChain, TreeFlat3, TreeChain3, TreeBranch, TreeNested}

TreeOf(c) == IF c = "a" THEN tree ELSE TreeB
Entries(c, s) == TreeOf(c)[s]
Entry(c, s, i) == TreeOf(c)[s][i]

\* ------------------------------------------------------------ helpers
Throw(e) ==
    /\ err' = e
    /\ task' = Idle
    /\ kont' = <<>>

Log(op, t, h, nx) ==
    [op |-> op, c |-> t.c, s |-> t.s, i |-> t.i, h |-> h,
     rp |-> replay.set, nx |-> nx]

\* The middleware after conversation c in the pipeline.
PipelineNext(c) ==
    IF c = Pipeline[Len(Pipeline)]
    THEN Task("downstream", "", 0, 0)
    ELSE LET j == CHOOSE n \in 1..Len(Pipeline) : Pipeline[n] = c
         IN  Task("conv", Pipeline[j + 1], 0, 0)

\* leave(): delete ctx[active]; delete session.conversation
leave ==
    /\ active' = FALSE
    /\ session' = NoConv

\* A handler returned without calling next: every pending await returns.
\* A run started by enter gives control back to the caller of enter.
Return ==
    IF kont # <<>> /\ kont[Len(kont)].k = "enter"
    THEN Task("downstream", "", 0, 0)
    ELSE Idle

\* ------------------------------------------------------------ part_002
\* The tree-navigation variant.  A Conversation object is a node of the
\* heap, a reference is its position and 0 is null; `maps` holds the Map
\* objects, each a sequence of [key, val] in insertion order.  An Id is a
\* string, and a number n is the string of its digits.
MaxCalls == 2
MaxSteps == 2

Undefined == "undefined"
Numbers == <<"0", "1", "2", "3", "4", "5", "6", "7", "8", "9">>
NumId(n) == Numbers[n + 1]
IsString(id) == id # Undefined /\ \A n \in 1..Len(Numbers) : Numbers[n] # id

NavPreds == {"pA"}
NavEvents == SUBSET NavPreds

NoComposer == [def |-> FALSE, dive |-> FALSE, entries |-> <<>>]
NoNav == [def |-> FALSE, active |-> "", step |-> ""]
NoCall == [op |-> "", n |-> 0, id |-> "", step |-> "", thrown |-> FALSE, before |-> NoNav]
NavIdle == [k |-> "idle", i |-> 0]
NavTask(k, i) == [k |-> k, i |-> i]

\* Map: set keeps the position of a key that exists
MapHas(map, key) == \E j \in 1..Len(map) : map[j].key = key
MapGet(map, key) ==
    IF MapHas(map, key)
    THEN map[CHOOSE j \in 1..Len(map) : map[j].key = key].val
    ELSE 0
MapSet(map, key, val) ==
    IF MapHas(map, key)
    THEN [j \in 1..Len(map) |-> IF map[j].key = key
                                THEN [key |-> key, val |-> val] ELSE map[j]]
    ELSE Append(map, [key |-> key, val |-> val])

\* new Conversation(identifier): the fields start as null, the index is
\* a Map of the object's own, and a given identifier is recorded in it.
Nav_Conversation(H, identifier) ==
    LET node == Len(H.nodes) + 1
        own == Len(H.maps) + 1
    IN  [nodes |-> Append(H.nodes,
                     [identifier |-> identifier, head |-> 0, tail |-> 0,
                      parent |-> 0, prev |-> 0, next |-> 0, index |-> own,
                      mw |-> NoComposer]),
         maps |-> Append(H.maps,
                     IF identifier = Undefined THEN <<>>
                     ELSE <<[key |-> identifier, val |-> node]>>)]
\* the object the last builder call created
NavLast(H) == Len(H.nodes)
\* index.size
IndexSize(H, this) == Len(H.maps[H.nodes[this].index])

\* get domain: the first value of the index
Nav_domain(H, this) ==
    LET index == H.maps[H.nodes[this].index]
    IN  IF index = <<>> THEN 0 ELSE index[1].val

\* add(node): the node becomes the tail of this and takes over its index
Nav_add(H, this, node) ==
    LET tail == H.nodes[this].tail
    IN  [H EXCEPT !.nodes =
            [[[@ EXCEPT ![node] = [@ EXCEPT !.prev = tail,
                                            !.parent = this,
                                            !.index = H.nodes[this].index]]
                 EXCEPT ![tail] = [@ EXCEPT !.next = node]]
                 EXCEPT ![this] = [@ EXCEPT !.tail = node]]]

\* wait(id?): id ??= this.index.size
Nav_wait(H, this, id) ==
    LET H1 == Nav_Conversation(H, IF id = Undefined
                                  THEN NumId(IndexSize(H, this)) ELSE id)
    IN  Nav_add(H1, this, NavLast(H1))

\* diveIn(id?): this.id = id ?? this.index.size
Nav_diveIn(H, this, id) ==
    LET i == IF id = Undefined THEN NumId(IndexSize(H, this)) ELSE id
        index == H.nodes[this].index
    IN  [nodes |-> [H.nodes EXCEPT ![this].identifier = i],
         maps |-> [H.maps EXCEPT ![index] = MapSet(@, i, this)]]

\* wrapComposer(op): the middleware goes to the composer of the tail step,
\* which starts with the middleware that records the step, and the node
\* returned holds the composer of the middleware alone.
Nav_wrapComposer(H, this, gate, h) ==
    LET H1 == IF H.nodes[this].head = 0 \/ H.nodes[this].tail = 0
              THEN LET H0 == Nav_Conversation(H, Undefined)
                       step == NavLast(H0)
                   IN  [H0 EXCEPT !.nodes =
                           [[@ EXCEPT ![this] = [@ EXCEPT !.head = step,
                                                          !.tail = step]]
                               EXCEPT ![step] = [@ EXCEPT !.parent = this]]]
              ELSE H
        dive == H1.nodes[this].tail
        H2 == [H1 EXCEPT !.nodes[dive].mw =
                  [def |-> TRUE, dive |-> TRUE,
                   entries |-> Append(@.entries, [gate |-> gate, h |-> h])]]
        H3 == Nav_Conversation(H2, Undefined)
        node == NavLast(H3)
        t == H3.nodes[this]
    IN  [H3 EXCEPT !.nodes[node] =
            [@ EXCEPT !.mw = [def |-> TRUE, dive |-> FALSE,
                              entries |-> <<[gate |-> "none", h |-> h]>>],
                      !.head = t.head, !.tail = t.tail, !.parent = this,
                      !.prev = t.prev, !.next = t.next, !.index = t.index]]

Nav_use(H, this, h) == Nav_wrapComposer(H, this, "none", h)
Nav_filter(H, this, pred, h) == Nav_wrapComposer(H, this, pred, h)

\* The object given to bot.use is the first one created.
NavRoot == 1
EmptyHeap == [nodes |-> <<>>, maps |-> <<>>]

\* c = new Conversation("setup"); c.filter(pA, hA1); c.use(hA2); c.wait();
\* c.use(hB); c.wait(); c.use(hC)
NavExample1 ==
    LET c0 == Nav_Conversation(EmptyHeap, "setup")
        c1 == Nav_use(Nav_filter(c0, NavRoot, "pA", "hA1"), NavRoot, "hA2")
        c2 == Nav_use(Nav_wait(c1, NavRoot, Undefined), NavRoot, "hB")
    IN  Nav_use(Nav_wait(c2, NavRoot, Undefined), NavRoot, "hC")

\* c = new Conversation("setup"); l = c.use(h1).diveIn("l");
\* ll = l.use(h2).diveIn("ll"); lll = ll.use(h3).diveIn("lll")
NavExample2 ==
    LET c0 == Nav_Conversation(EmptyHeap, "setup")
        c1 == Nav_use(c0, NavRoot, "h1")
        l == Nav_diveIn(c1, NavLast(c1), "l")
        c2 == Nav_use(l, NavLast(l), "h2")
        ll == Nav_diveIn(c2, NavLast(c2), "ll")
        c3 == Nav_use(ll, NavLast(ll), "h3")
    IN  Nav_diveIn(c3, NavLast(c3), "lll")

\* c = new Conversation("setup"), with nothing registered
NavEmpty == Nav_Conversation(EmptyHeap, "setup")

NavTrees == {NavExample1, NavExample2, NavEmpty}

\* The variables of the variant while the replay-stack engine runs.
NavQuiet ==
    /\ heap = NavExample1
    /\ nsession = NoNav
    /\ target = 0
    /\ ntask = NavIdle
    /\ nev = {}
    /\ nerr = "none"
    /\ calls = 0
    /\ lastCall = NoCall

\* ============================================================ part_001
\* The stack-with-identifier variant, a third state machine over its own
\* variables (SpecP1).  The pipeline is bot.use(session, convA, convB,
\* downstream); downstream is any middleware that uses ctx.conversation.

\* ------------------------------------------------------------ bounds
P1MaxStack == 2       \* frames the persisted stack holds at most
P1MaxControls == 2    \* control calls downstream makes in one invocation

\* ------------------------------------------------------------ part_001 data
P1Pipeline == <<"a", "b">>
P1EnterIds == {"a", "b", "x"}
P1NoIndex == -1       \* replayIndex is undefined

\* interface StackFrame { id; pc }
P1_StackFrame(id, pc) == [id |-> id, pc |-> pc]

\* ConversationSessionData: conversation?: { stack; replayIndex? }.  The
\* record keeps the fields of the object after `delete
\* session.conversation` (def = FALSE), because the closures of the
\* running invocation still hold the object.
P1_SessionData(stack) == [def |-> TRUE, stack |-> stack, replayIndex |-> P1NoIndex]

P1Idle == [k |-> "idle", c |-> 0, nn |-> "next", nc |-> FALSE, chain |-> <<>>,
           i |-> 0, n |-> 0]
P1Task(k, c, nn) == [P1Idle EXCEPT !.k = k, !.c = c, !.nn = nn]
P1Log(op, c, id) == [op |-> op, c |-> c, id |-> id]

\* composer.use(...middleware): the middleware run in the order of their
\* registration, each one reached by the `next` of the one before it.
P1_Composer_use(composer, middleware) == composer \o middleware

\* new ShallowConversation(identifier): an empty composer and index
P1_Conversation(identifier) ==
    [identifier |-> identifier, composer |-> <<>>, index |-> <<>>]

\* *register(middleware): for every m the pc update setPc(index.length) is
\* pushed to the index and yielded in front of m.
RECURSIVE P1_register(_, _)
P1_register(index, middleware) ==
    IF middleware = <<>> THEN [index |-> index, yielded |-> <<>>]
    ELSE LET ic == Len(index)
             pcUpd == [kind |-> "setPc", pc |-> ic, h |-> ""]
             m == [kind |-> "user", pc |-> ic, h |-> Head(middleware)]
             rest == P1_register(Append(index, pcUpd), Tail(middleware))
         IN  [index |-> rest.index, yielded |-> <<pcUpd, m>> \o rest.yielded]

\* use(...middleware)
P1_use(t, middleware) ==
    LET r == P1_register(t.index, middleware)
    IN  [t EXCEPT !.composer = P1_Composer_use(@, r.yielded),
                  !.index = r.index]

\* wait(): use(() => {}), a handler that never calls next
P1_wait(t) == P1_use(t, <<"wait">>)

\* a = new Conversation("a"); a.use(h1).wait().use(h2)
P1TreeA == P1_use(P1_wait(P1_use(P1_Conversation("a"), <<"h1">>)), <<"h2">>)
\* b = new Conversation("b"); b.use(hb).wait()
P1TreeB == P1_wait(P1_use(P1_Conversation("b"), <<"hb">>))
P1TreeOf(c) == IF P1Pipeline[c] = "a" THEN P1TreeA ELSE P1TreeB

\* The variables of the variant while another engine runs.
P1Quiet ==
    /\ psession = P1_SessionData(<<>>)
    /\ pmain = FALSE
    /\ ptask = P1Idle
    /\ pkont = <<>>
    /\ perr = "none"
    /\ pnextCalls = [c \in 1..Len(P1Pipeline) |-> 0]
    /\ ptrace = <<>>
    /\ pstart = P1_SessionData(<<>>)

\* ------------------------------------------------------------ actions
Init ==
    /\ session = NoConv
    /\ tree \in Trees
    /\ ev = {}
    /\ replay = NoReplay
    /\ active = FALSE
    /\ installed = <<>>
    /\ task = Idle
    /\ kont = <<>>
    /\ enters = 0
    /\ err = "none"
    /\ trace = <<>>
    /\ startConv = NoConv
    /\ stopAt = NoStop
    /\ prevStop = NoStop
    /\ removed = NoRemoved
    /\ NavQuiet
    /\ P1Quiet

\* The transport delivers one event with a fresh context object; the
\* session slot is what the previous invocation left.
StartEvent ==
    /\ task.k = "idle"
    /\ \E e \in Events : ev' = e
    /\ replay' = NoReplay
    /\ active' = FALSE
    /\ installed' = <<>>
    /\ task' = Task("conv", Pipeline[1], 0, 0)
    /\ kont' = <<>>
    /\ enters' = 0
    /\ err' = "none"
    /\ trace' = <<>>
    /\ startConv' = session
    /\ prevStop' = stopAt
    /\ stopAt' = NoStop
    /\ removed' = IF removed.s # 0 /\ removed.age < 2
                  THEN [removed EXCEPT !.age = @ + 1]
                  ELSE removed
    /\ UNCHANGED <<session, tree>>
    /\ UNCHANGED <<nvars, pvars>>

\* Variant of NotActive: the recorded identifier is not compared.
NotActive_anyId(conversation, id) == ~conversation.def

\* if (session.conversation?.id !== id): not active, pass through
NotActive(conversation, id) == ~conversation.def \/ conversation.id # id

\* Variant of StartReplay: the cursor starts at frame 0.
StartReplay_frame0 == [set |-> TRUE, frame |-> 0, pc |-> 0]

\* ctx[replay] = { frame: -1, pc: 0 }
StartReplay == [set |-> TRUE, frame |-> -1, pc |-> 0]

\* Conversation.middleware: install the controls, pass through when this
\* conversation is not the recorded one, otherwise start the replay and
\* call the root scope.
Conversation_middleware ==
    /\ task.k = "conv"
    /\ LET id == task.c
           root == ~active
       IN  /\ installed' = <<id>> \o installed
           /\ IF NotActive(session, id)
              THEN /\ task' = PipelineNext(id)
                   /\ UNCHANGED <<replay, kont>>
              ELSE /\ replay' = IF root THEN StartReplay
                                        ELSE replay
                   /\ task' = Task("shallow", id, 1, 0)
                   /\ kont' = <<[k |-> "conv", c |-> id, s |-> 0, i |-> 0, root |-> root]>>
    /\ UNCHANGED <<session, tree, ev, active, enters, err, trace, startConv,
                   stopAt, prevStop, removed>>
    /\ UNCHANGED <<nvars, pvars>>

\* Variant of push: the frame of a new scope starts at pc 0.
push_pc0(stack) == Append(stack, StackFrame(0))

\* stack.push({ pc: -1 })
push(stack) == Append(stack, StackFrame(-1))

\* stack.pop()
pop(stack) == IF stack = <<>> THEN stack ELSE SubSeq(stack, 1, Len(stack) - 1)

\* ShallowConversation.middleware up to the call of the composer: a
\* virtual push while replaying, a real push otherwise.
ShallowConversation_middleware ==
    /\ task.k = "shallow"
    /\ IF ~session.def
       THEN /\ Throw("No data available!")
            /\ UNCHANGED <<session, replay>>
       ELSE /\ IF replay.set
               THEN /\ replay' = [replay EXCEPT !.frame = @ + 1]
                    /\ UNCHANGED session
               ELSE /\ session' = [session EXCEPT !.stack = push(@)]
                    /\ UNCHANGED replay
            /\ task' = Task("composer", task.c, task.s, 1)
            /\ UNCHANGED <<kont, err>>
    /\ UNCHANGED <<tree, ev, active, installed, enters, trace, startConv,
                   stopAt, prevStop, removed>>
    /\ UNCHANGED <<nvars, pvars>>

\* The composer of a scope: entries run in registration order, an entry
\* whose predicate the event does not satisfy passes to the next one, and
\* after the last entry the `next` given to the composer is called.
Composer_dispatch ==
    /\ task.k = "composer"
    /\ IF task.i > Len(Entries(task.c, task.s))
       THEN task' = Task("next", task.c, task.s, 0)
       ELSE LET e == Entry(task.c, task.s, task.i)
            IN  IF e.gate = "none" \/ e.gate \in ev
                THEN task' = Task("trackpc", task.c, task.s, task.i)
                ELSE task' = Task("composer", task.c, task.s, task.i + 1)
    /\ UNCHANGED <<session, tree, ev, replay, active, installed, kont, enters,
                   err, trace, startConv, stopAt, prevStop, removed>>
    /\ UNCHANGED <<nvars, pvars>>

\* getStackData: the stack, its size and the 0-based position of its top
\* frame; frame f of the source is stack[f + 1] here.
getStackData(conversation) ==
    [stack |-> conversation.stack,
     stackSize |-> Len(conversation.stack),
     topFramePos |-> Len(conversation.stack) - 1]

\* Variant of TargetNotReached: the entry at the target pc is skipped too.
TargetNotReached_le(replayPos, targetPc) == replayPos.pc <= targetPc

\* if (replayPos.pc < targetPc): target pc not reached, skip the handler
TargetNotReached(replayPos, targetPc) == replayPos.pc < targetPc

\* Variant of ReplayDone: the replay is done one frame above the top frame.
ReplayDone_above(replayPos, topFramePos) == replayPos.frame + 1 = topFramePos

\* if (replayPos.frame === topFramePos): replay done
ReplayDone(replayPos, topFramePos) == replayPos.frame = topFramePos

\* topFrame.pc++
incpc(stack) == [stack EXCEPT ![Len(stack)].pc = @ + 1]

\* The call handler(ctx, next) of a tracker: a nested scope is entered
\* with the tracker's next as its continuation, a user handler is run.
InnerTask(t) ==
    LET e == Entry(t.c, t.s, t.i)
    IN  IF e.kind = "scope" THEN Task("shallow", t.c, e.s, 0)
                            ELSE Task("user", t.c, t.s, t.i)
InnerKont(t) ==
    IF Entry(t.c, t.s, t.i).kind = "scope"
    THEN <<[k |-> "scope", c |-> t.c, s |-> t.s, i |-> t.i, root |-> FALSE]>> \o kont
    ELSE kont

\* trackpc: the wrapper of every registered middleware.
trackpc ==
    /\ task.k = "trackpc"
    /\ LET d == getStackData(session)
           replayPos == replay
       IN  IF ~session.def
           THEN /\ Throw("No data available!")
                /\ UNCHANGED <<session, replay, active, trace>>
           ELSE IF replayPos.set
           THEN IF replayPos.frame < 0 \/ replayPos.frame > d.topFramePos
                THEN \* replayFrame is undefined: reading its pc throws
                     /\ Throw("TypeError")
                     /\ UNCHANGED <<session, replay, active, trace>>
                ELSE LET targetPc == d.stack[replayPos.frame + 1].pc
                     IN  IF TargetNotReached(replayPos, targetPc)
                         THEN /\ replay' = [replay EXCEPT !.pc = @ + 1]
                              /\ task' = Task("composer", task.c, task.s, task.i + 1)
                              /\ trace' = Append(trace, Log("skip", task, "", TRUE))
                              /\ UNCHANGED <<session, active, kont, err>>
                         ELSE IF ReplayDone(replayPos, d.topFramePos)
                         THEN /\ replay' = NoReplay
                              /\ active' = TRUE
                              /\ task' = Task("composer", task.c, task.s, task.i + 1)
                              /\ trace' = Append(trace, Log("live", task, "", TRUE))
                              /\ UNCHANGED <<session, kont, err>>
                         ELSE /\ task' = InnerTask(task)
                              /\ kont' = InnerKont(task)
                              /\ trace' = Append(trace, Log("inner", task, "", TRUE))
                              /\ UNCHANGED <<session, replay, active, err>>
           ELSE IF d.stackSize = 0
                THEN \* topFrame is undefined: topFrame.pc++ throws
                     /\ Throw("TypeError")
                     /\ UNCHANGED <<session, replay, active, trace>>
                ELSE /\ session' = [session EXCEPT !.stack = incpc(@)]
                     /\ task' = InnerTask(task)
                     /\ kont' = InnerKont(task)
                     /\ trace' = Append(trace, Log("inner", task, "", TRUE))
                     /\ UNCHANGED <<replay, active, err>>
    /\ UNCHANGED <<tree, ev, installed, enters, startConv, stopAt, prevStop,
                   removed>>
    /\ UNCHANGED <<nvars, pvars>>

\* The callback ShallowConversation.middleware gives its composer:
\* stack.pop(), then the next of the scope.
ShallowConversation_next ==
    /\ task.k = "next"
    /\ session' = IF session.def THEN [session EXCEPT !.stack = pop(@)]
                                  ELSE session
    /\ LET top == Head(kont)
       IN  IF top.k = "scope"
           THEN /\ task' = Task("composer", top.c, top.s, top.i + 1)
                /\ kont' = Tail(kont)
           ELSE /\ task' = Task(IF top.k = "enter" THEN "enterDone" ELSE "convDone",
                                top.c, 0, 0)
                /\ UNCHANGED kont
    /\ UNCHANGED <<tree, ev, replay, active, installed, enters, err, trace,
                   startConv, stopAt, prevStop, removed>>
    /\ UNCHANGED <<nvars, pvars>>

\* Variant of EnterTarget: only the newest controls answer, oldEnter is
\* never consulted.
EnterTarget_newest(chain, identifier) ==
    IF chain # <<>> /\ Head(chain) = identifier THEN identifier ELSE ""

\* enter(identifier) of the controls: an identifier other than the
\* installing conversation's goes to oldEnter, the controls installed
\* by the conversation middleware that ran before; none: nothing happens.
RECURSIVE EnterTarget(_, _)
EnterTarget(chain, identifier) ==
    IF chain = <<>> THEN ""
    ELSE IF Head(chain) = identifier THEN identifier
    ELSE EnterTarget(Tail(chain), identifier)

\* Variant of AlreadyRunning: only a conversation with the identifier of
\* the first conversation of the pipeline counts as running.
AlreadyRunning_sameId(conversation) ==
    conversation.def /\ conversation.id = Pipeline[1]

\* if (session.conversation !== undefined) throw
AlreadyRunning(conversation) == conversation.def

\* ctx.conversation.enter(identifier), called from `caller`; log is the
\* trace up to the call.
enter(identifier, caller, log) ==
    LET id == EnterTarget(installed, identifier)
    IN  IF id = ""
        THEN /\ task' = caller
             /\ kont' = <<>>
             /\ trace' = Append(log, Log("noop", task, identifier, FALSE))
             /\ UNCHANGED <<session, active, err>>
        ELSE IF AlreadyRunning(session)
        THEN /\ Throw("already running")
             /\ trace' = Append(log, Log("reject", task, identifier, FALSE))
             /\ UNCHANGED <<session, active>>
        ELSE /\ session' = [def |-> TRUE, id |-> id, stack |-> <<>>]
             /\ active' = TRUE
             /\ task' = Task("shallow", id, 1, 0)
             /\ kont' = <<[k |-> "enter", c |-> id, s |-> 0, i |-> 0, root |-> FALSE]>> \o kont
             /\ trace' = Append(log, Log("enter", task, identifier, FALSE))
             /\ UNCHANGED err

\* The callback enter gives the root scope: leave().
enter_done ==
    /\ task.k = "enterDone"
    /\ leave
    /\ trace' = Append(trace, Log("leave", task, "", FALSE))
    /\ task' = Return
    /\ kont' = <<>>
    /\ UNCHANGED <<tree, ev, replay, installed, enters, err, startConv, stopAt,
                   prevStop, removed>>
    /\ UNCHANGED <<nvars, pvars>>

\* The callback Conversation.middleware gives the root scope:
\* if (root) leave(); await next().
Conversation_done ==
    /\ task.k = "convDone"
    /\ IF Head(kont).root
       THEN /\ leave
            /\ trace' = Append(trace, Log("leave", task, "", FALSE))
       ELSE UNCHANGED <<session, active, trace>>
    /\ task' = PipelineNext(task.c)
    /\ kont' = <<>>
    /\ UNCHANGED <<tree, ev, replay, installed, enters, err, startConv, stopAt,
                   prevStop, removed>>
    /\ UNCHANGED <<nvars, pvars>>

\* A user handler (arbitrary middleware): it calls next, ...
Handler_next ==
    /\ task.k = "user"
    /\ Entry(task.c, task.s, task.i).h # "wait"
    /\ trace' = Append(trace, Log("run", task, Entry(task.c, task.s, task.i).h, TRUE))
    /\ task' = Task("composer", task.c, task.s, task.i + 1)
    /\ UNCHANGED <<session, tree, ev, replay, active, installed, kont, enters,
                   err, startConv, stopAt, prevStop, removed>>
    /\ UNCHANGED <<nvars, pvars>>

\* ... or returns without calling next (the handler of wait always does), ...
Handler_return ==
    /\ task.k = "user"
    /\ trace' = Append(trace, Log("run", task, Entry(task.c, task.s, task.i).h, FALSE))
    /\ stopAt' = [c |-> task.c, s |-> task.s, i |-> task.i, depth |-> Len(kont)]
    /\ task' = Return
    /\ kont' = <<>>
    /\ UNCHANGED <<session, tree, ev, replay, active, installed, enters, err,
                   startConv, prevStop, removed>>
    /\ UNCHANGED <<nvars, pvars>>

\* ... or calls ctx.conversation.enter and returns.
Handler_enter ==
    /\ task.k = "user"
    /\ Entry(task.c, task.s, task.i).h # "wait"
    /\ \E identifier \in EnterIds :
          enter(identifier, Return,
                Append(trace, Log("run", task, Entry(task.c, task.s, task.i).h, FALSE)))
    /\ stopAt' = [c |-> task.c, s |-> task.s, i |-> task.i, depth |-> Len(kont)]
    /\ UNCHANGED <<tree, ev, replay, installed, enters, startConv, prevStop,
                   removed>>
    /\ UNCHANGED <<nvars, pvars>>

\* The middleware installed after the conversations: it may call
\* ctx.conversation.enter, and it returns.
Downstream_enter ==
    /\ task.k = "downstream"
    /\ enters < MaxEnters
    /\ enters' = enters + 1
    /\ \E identifier \in EnterIds : enter(identifier, task, trace)
    /\ UNCHANGED <<tree, ev, replay, installed, startConv, stopAt, prevStop,
                   removed>>
    /\ UNCHANGED <<nvars, pvars>>

Downstream_return ==
    /\ task.k = "downstream"
    /\ task' = Idle
    /\ UNCHANGED <<session, tree, ev, replay, active, installed, kont, enters,
                   err, trace, startConv, stopAt, prevStop, removed>>
    /\ UNCHANGED <<nvars, pvars>>

\* The process restarts with a builder that registers one entry less.
RemoveAt(seq, i) == SubSeq(seq, 1, i - 1) \o SubSeq(seq, i + 1, Len(seq))
RemoveEntry ==
    /\ task.k = "idle"
    /\ session.def
    /\ removed = NoRemoved
    /\ \E s \in 1..Len(tree) : \E i \in 1..Len(tree[s]) :
          /\ tree' = [tree EXCEPT ![s] = RemoveAt(@, i)]
          /\ removed' = [s |-> s, i |-> i, age |-> 0]
    /\ UNCHANGED <<session, ev, replay, active, installed, task, kont, enters,
                   err, trace, startConv, stopAt, prevStop>>
    /\ UNCHANGED <<nvars, pvars>>

Next ==
    \/ StartEvent
    \/ Conversation_middleware
    \/ ShallowConversation_middleware
    \/ Composer_dispatch
    \/ trackpc
    \/ ShallowConversation_next
    \/ enter_done
    \/ Conversation_done
    \/ Handler_next
    \/ Handler_return
    \/ Handler_enter
    \/ Downstream_enter
    \/ Downstream_return

Spec == Init /\ [][Next]_vars

NextD == Next \/ RemoveEntry

SpecD == Init /\ [][NextD]_vars

\* A user handler throws: trackpc awaits the handler without a try, and so
\* does every caller up to the transport.
Handler_throw ==
    /\ task.k = "user"
    /\ Entry(task.c, task.s, task.i).h # "wait"
    /\ trace' = Append(trace, Log("throw", task, Entry(task.c, task.s, task.i).h, FALSE))
    /\ stopAt' = [c |-> task.c, s |-> task.s, i |-> task.i, depth |-> Len(kont)]
    /\ Throw("handler error")
    /\ UNCHANGED <<session, tree, ev, replay, active, installed, enters,
                   startConv, prevStop, removed>>
    /\ UNCHANGED <<nvars, pvars>>

NextF == Next \/ Handler_throw

SpecF == Init /\ [][NextF]_vars

\* ------------------------------------------------------------ part_002 actions
\* The replay-stack engine while the variant runs.
ConvQuiet ==
    /\ session = NoConv
    /\ tree = TreeFlat
    /\ ev = {}
    /\ replay = NoReplay
    /\ active = FALSE
    /\ installed = <<>>
    /\ task = Idle
    /\ kont = <<>>
    /\ enters = 0
    /\ err = "none"
    /\ trace = <<>>
    /\ startConv = NoConv
    /\ stopAt = NoStop
    /\ prevStop = NoStop
    /\ removed = NoRemoved

InitNav ==
    /\ ConvQuiet
    /\ heap \in NavTrees
    /\ nsession = NoNav
    /\ target = 0
    /\ ntask = NavIdle
    /\ nev = {}
    /\ nerr = "none"
    /\ calls = 0
    /\ lastCall = NoCall
    /\ P1Quiet

\* Variant of NavThrow: the error is dropped and the event is passed on.
NavThrow_quiet(e) ==
    /\ nerr' = "none"
    /\ ntask' = NavTask("downstream", 0)

NavThrow(e) ==
    /\ nerr' = e
    /\ ntask' = NavIdle

\* get id: only a string identifier is returned, anything else throws
Nav_id(H, node) ==
    IF IsString(H.nodes[node].identifier) THEN H.nodes[node].identifier
                                          ELSE Undefined

\* changeStep(ctx, step), called on object `this`
changeStep(this, c, step) ==
    IF ~c.def
    THEN [def |-> TRUE, active |-> Nav_id(heap, Nav_domain(heap, this)),
          step |-> step]
    ELSE [c EXCEPT !.step = step]

\* One event is delivered with a fresh context object.
Nav_StartEvent ==
    /\ ntask.k = "idle"
    /\ \E e \in NavEvents : nev' = e
    /\ ntask' = NavTask("middleware", 0)
    /\ target' = 0
    /\ nerr' = "none"
    /\ calls' = 0
    /\ lastCall' = NoCall
    /\ UNCHANGED <<heap, nsession>>
    /\ UNCHANGED <<cvars, pvars>>

\* Conversation.middleware of the object given to bot.use: pass through
\* without a record or with another domain, otherwise look the step up
\* and run its composer.
Nav_middleware ==
    /\ ntask.k = "middleware"
    /\ LET this == NavRoot
           domain == Nav_domain(heap, this)
           step == nsession.step
       IN  IF ~nsession.def \/ nsession.active # Nav_id(heap, domain)
           THEN /\ ntask' = NavTask("downstream", 0)
                /\ UNCHANGED <<target, nerr>>
           ELSE LET t == IF step = NumId(0)
                         THEN heap.nodes[domain].head
                         ELSE MapGet(heap.maps[heap.nodes[this].index], step)
                IN  IF t = 0
                    THEN /\ NavThrow(IF step = NumId(0) THEN "Cannot enter"
                                                        ELSE "Cannot find")
                         /\ UNCHANGED target
                    ELSE IF step # NumId(0) /\ Nav_id(heap, t) = Undefined
                    THEN /\ NavThrow("Anonymous")
                         /\ UNCHANGED target
                    ELSE IF step # NumId(0) /\ Nav_id(heap, t) # step
                    THEN /\ NavThrow("Index out of sync")
                         /\ UNCHANGED target
                    ELSE IF ~heap.nodes[t].mw.def
                    THEN /\ NavThrow("no middleware")
                         /\ UNCHANGED target
                    ELSE /\ target' = t
                         /\ ntask' = IF heap.nodes[t].mw.dive
                                     THEN NavTask("dive", 0)
                                     ELSE NavTask("composer", 1)
                         /\ UNCHANGED nerr
    /\ UNCHANGED <<heap, nsession, nev, calls, lastCall>>
    /\ UNCHANGED <<cvars, pvars>>

\* The first middleware of the composer of a step: a step that has an
\* identifier records it, then next.
Nav_dive ==
    /\ ntask.k = "dive"
    /\ LET dive == target
       IN  nsession' = IF heap.nodes[dive].identifier # Undefined
                       THEN changeStep(heap.nodes[dive].parent, nsession,
                                       heap.nodes[dive].identifier)
                       ELSE nsession
    /\ ntask' = NavTask("composer", 1)
    /\ UNCHANGED <<heap, target, nev, nerr, calls, lastCall>>
    /\ UNCHANGED <<cvars, pvars>>

\* The composer of the selected step: the entries in registration order,
\* then the next of the conversation middleware.
Nav_dispatch ==
    /\ ntask.k = "composer"
    /\ LET entries == heap.nodes[target].mw.entries
       IN  IF ntask.i > Len(entries)
           THEN ntask' = NavTask("downstream", 0)
           ELSE IF entries[ntask.i].gate = "none" \/ entries[ntask.i].gate \in nev
                THEN ntask' = NavTask("handler", ntask.i)
                ELSE ntask' = NavTask("composer", ntask.i + 1)
    /\ calls' = 0
    /\ UNCHANGED <<heap, nsession, target, nev, nerr, lastCall>>
    /\ UNCHANGED <<cvars, pvars>>

\* A user handler, or the middleware after the conversation, may call the
\* functions of ctx.conversation.
CanCall ==
    /\ ntask.k \in {"handler", "downstream"}
    /\ calls < MaxCalls

\* The call returned, or threw and ended the invocation.
Called(op, n, id, step, thrown) ==
    /\ calls' = calls + 1
    /\ lastCall' = [op |-> op, n |-> n, id |-> id, step |-> step,
                    thrown |-> thrown, before |-> nsession]
    /\ UNCHANGED <<heap, target, nev>>
    /\ UNCHANGED <<cvars, pvars>>

NavEnterIds == {"setup", "other"}
NavEnterSteps == {Undefined, "lll", "1"}
NavSwitchIds == {"setup", "l", "lll", "zz"}

\* enter(identifier, step): the record is replaced, step ?? 0
Nav_enter ==
    /\ CanCall
    /\ \E identifier \in NavEnterIds : \E step \in NavEnterSteps :
          /\ nsession' = [def |-> TRUE, active |-> identifier,
                          step |-> IF step = Undefined THEN NumId(0) ELSE step]
          /\ Called("enter", 0, identifier, step, FALSE)
    /\ UNCHANGED <<ntask, nerr>>

\* Variant of Nav_leave_record: the record is deleted only when the
\* conversation is at its first step.
Nav_leave_record_first(c) == IF c.def /\ c.step = NumId(0) THEN NoNav ELSE c

\* leave(): delete ctx.session.conversation
Nav_leave_record(c) == NoNav

Nav_leave ==
    /\ CanCall
    /\ nsession' = Nav_leave_record(nsession)
    /\ Called("leave", 0, "", "", FALSE)
    /\ UNCHANGED <<ntask, nerr>>

\* The loops of back, forward and diveOut: the object reached from node
\* over `steps` links, 0 when a link is null (the loop throws).
Link(H, node, dir) ==
    IF dir = "prev" THEN H.nodes[node].prev
    ELSE IF dir = "next" THEN H.nodes[node].next
    ELSE H.nodes[node].parent
RECURSIVE Nav_walk(_, _, _, _)
Nav_walk(H, node, steps, dir) ==
    IF steps <= 0 THEN node
    ELSE IF Link(H, node, dir) = 0 THEN 0
    ELSE Nav_walk(H, Link(H, node, dir), steps - 1, dir)

\* back, forward and diveOut start at `this`, the object whose middleware
\* installed the functions; then changeStep(ctx, node.id).
Navigate(op, dir, message, steps) ==
    LET this == NavRoot
        node == Nav_walk(heap, this, steps, dir)
    IN  IF node = 0
        THEN /\ NavThrow(message)
             /\ Called(op, steps, "", "", TRUE)
             /\ UNCHANGED nsession
        ELSE IF Nav_id(heap, node) = Undefined
        THEN /\ NavThrow("Anonymous")
             /\ Called(op, steps, "", "", TRUE)
             /\ UNCHANGED nsession
        ELSE /\ nsession' = changeStep(this, nsession, Nav_id(heap, node))
             /\ Called(op, steps, "", "", FALSE)
             /\ UNCHANGED <<ntask, nerr>>

\* back(steps)
Nav_back ==
    /\ CanCall
    /\ \E steps \in 0..MaxSteps :
          Navigate("back", "prev", "Reached beginning", steps)

\* forward(steps)
Nav_forward ==
    /\ CanCall
    /\ \E steps \in 0..MaxSteps :
          Navigate("forward", "next", "Reached end", steps)

\* diveOut(depth)
Nav_diveOut ==
    /\ CanCall
    /\ \E depth \in 0..MaxSteps :
          Navigate("diveOut", "parent", "Reached top", depth)

\* Variant of IndexHas: every identifier is taken as known.
IndexHas_any(H, this, identifier) == TRUE

\* this.index.has(identifier)
IndexHas(H, this, identifier) ==
    MapHas(H.maps[H.nodes[this].index], identifier)

\* switch(identifier)
Nav_switch ==
    /\ CanCall
    /\ \E identifier \in NavSwitchIds :
          LET this == NavRoot
          IN  IF ~IndexHas(heap, this, identifier)
              THEN /\ NavThrow("unknown step")
                   /\ Called("switch", 0, identifier, "", TRUE)
                   /\ UNCHANGED nsession
              ELSE /\ nsession' = changeStep(this, nsession, identifier)
                   /\ Called("switch", 0, identifier, "", FALSE)
                   /\ UNCHANGED <<ntask, nerr>>

\* The handler calls next, ...
Nav_handler_next ==
    /\ ntask.k = "handler"
    /\ ntask' = NavTask("composer", ntask.i + 1)
    /\ UNCHANGED <<heap, nsession, target, nev, nerr, calls, lastCall>>
    /\ UNCHANGED <<cvars, pvars>>

\* ... or returns without calling next.
Nav_handler_return ==
    /\ ntask.k = "handler"
    /\ ntask' = NavIdle
    /\ UNCHANGED <<heap, nsession, target, nev, nerr, calls, lastCall>>
    /\ UNCHANGED <<cvars, pvars>>

Nav_downstream_return ==
    /\ ntask.k = "downstream"
    /\ ntask' = NavIdle
    /\ UNCHANGED <<heap, nsession, target, nev, nerr, calls, lastCall>>
    /\ UNCHANGED <<cvars, pvars>>

NextNav ==
    \/ Nav_StartEvent
    \/ Nav_middleware
    \/ Nav_dive
    \/ Nav_dispatch
    \/ Nav_enter
    \/ Nav_leave
    \/ Nav_back
    \/ Nav_forward
    \/ Nav_diveOut
    \/ Nav_switch
    \/ Nav_handler_next
    \/ Nav_handler_return
    \/ Nav_downstream_return

SpecNav == InitNav /\ [][NextNav]_vars

\* ------------------------------------------------------------ part_001 actions
InitP1 ==
    /\ ConvQuiet
    /\ NavQuiet
    /\ psession = P1_SessionData(<<>>)
    /\ pmain = FALSE
    /\ ptask = P1Idle
    /\ pkont = <<>>
    /\ perr = "none"
    /\ pnextCalls = [c \in 1..Len(P1Pipeline) |-> 0]
    /\ ptrace = <<>>
    /\ pstart = P1_SessionData(<<>>)

\* A throw: nothing catches it, every pending call of the invocation ends.
P1Throw(e) ==
    /\ perr' = e
    /\ ptask' = P1Idle
    /\ pkont' = <<>>

\* A middleware function returns: the innermost call that awaits a
\* `next` goes on behind it, with nextCalled = true.
P1_Return(k) ==
    IF k = <<>>
    THEN /\ ptask' = P1Idle
         /\ pkont' = <<>>
    ELSE /\ ptask' = [P1Task("after", Head(k).c, Head(k).nn) EXCEPT !.nc = TRUE]
         /\ pkont' = Tail(k)

\* The `next` of the conversation at position c of the pipeline is
\* called; nn = "noop" is the no-op passed to the recursion.  caller holds
\* the caller if it goes on after the call.
P1_next(c, nn, caller) ==
    IF nn = "noop"
    THEN /\ P1_Return(caller \o pkont)
         /\ UNCHANGED pnextCalls
    ELSE /\ pnextCalls' = [pnextCalls EXCEPT ![c] = @ + 1]
         /\ pkont' = caller \o pkont
         /\ ptask' = IF c < Len(P1Pipeline)
                     THEN P1Task("mw", c + 1, "next")
                     ELSE P1Task("downstream", 0, "next")

\* The transport delivers one event with a fresh context object; the
\* session slot is what the previous invocation left.
P1_StartEvent ==
    /\ ptask.k = "idle"
    /\ pmain' = FALSE
    /\ perr' = "none"
    /\ ptrace' = <<>>
    /\ pnextCalls' = [c \in 1..Len(P1Pipeline) |-> 0]
    /\ pstart' = psession
    /\ ptask' = P1Task("mw", 1, "next")
    /\ pkont' = <<>>
    /\ UNCHANGED psession
    /\ UNCHANGED <<cvars, nvars>>

\* enter(id): rejected while ctx[main] is set, else sets it and pushes
\* the frame {id, pc: 0}; then is the call that runs next.
P1_enter(id, c, then) ==
    IF pmain
    THEN /\ P1Throw("Already in conversation, cannot enter another one")
         /\ ptrace' = Append(ptrace, P1Log("reject", c, id))
         /\ UNCHANGED <<psession, pmain>>
    ELSE /\ pmain' = TRUE
         /\ psession' = [psession EXCEPT !.stack = Append(@, P1_StackFrame(id, 0))]
         /\ ptask' = then
         /\ ptrace' = Append(ptrace, P1Log("enter", c, id))
         /\ UNCHANGED <<pkont, perr>>

\* leave(): stack.pop(), and ctx[main] is deleted with the last frame
P1_leave(stack) == IF stack = <<>> THEN <<>> ELSE SubSeq(stack, 1, Len(stack) - 1)

\* Variant of P1_NotResponsible: the conversation calls next whether or
\* not it has called it before.
P1_NotResponsible_always(nextCalled) == TRUE

\* if (!nextCalled) await next(): the pass-through of a conversation that
\* does not own the bottom frame
P1_NotResponsible(nextCalled) == ~nextCalled

\* Conversation.middleware up to its first await.
P1_middleware ==
    /\ ptask.k = "mw"
    /\ LET c == ptask.c
           id == P1Pipeline[c]
           conversation == psession
           stack == psession.stack
       IN  IF ~conversation.def
           THEN \* conversation.stack of undefined
                /\ P1Throw("TypeError")
                /\ UNCHANGED <<psession, pmain, pnextCalls, ptrace>>
           ELSE IF pmain
           THEN \* call(): enter(id), then run() with the whole composer
                /\ P1_enter(id, c,
                       [P1Task("run", c, ptask.nn) EXCEPT
                            !.chain = P1TreeOf(c).composer, !.i = 1])
                /\ UNCHANGED pnextCalls
           ELSE IF conversation.replayIndex # P1NoIndex
           THEN LET final == conversation.replayIndex = Len(stack) - 1
                    at == IF final THEN conversation.replayIndex + 1
                                   ELSE conversation.replayIndex
                    index == P1TreeOf(c).index
                IN  /\ pmain' = (final \/ pmain)
                    /\ psession' = IF final
                                   THEN [psession EXCEPT !.replayIndex = P1NoIndex]
                                   ELSE psession
                    /\ ptrace' = Append(ptrace,
                           P1Log(IF final THEN "final" ELSE "frame", c, id))
                    /\ IF at + 1 > Len(index)
                       THEN \* runTarget is undefined: run() throws
                            P1Throw("TypeError")
                       ELSE /\ ptask' = [P1Task("run", c, ptask.nn) EXCEPT
                                            !.chain = <<index[at + 1]>>, !.i = 1]
                            /\ UNCHANGED <<pkont, perr>>
                    /\ UNCHANGED pnextCalls
           ELSE IF Len(stack) = 0
           THEN \* await next(); nextCalled = true
                /\ P1_next(c, ptask.nn, <<[c |-> c, nn |-> ptask.nn]>>)
                /\ UNCHANGED <<psession, pmain, perr, ptrace>>
           ELSE /\ ptask' = P1Task("after", c, ptask.nn)
                /\ UNCHANGED <<psession, pmain, pkont, perr, pnextCalls, ptrace>>
    /\ UNCHANGED pstart
    /\ UNCHANGED <<cvars, nvars>>

\* Conversation.middleware behind `if (stack.length === 0) await next()`.
P1_after ==
    /\ ptask.k = "after"
    /\ LET c == ptask.c
           id == P1Pipeline[c]
           stack == psession.stack
           nextCalled == ptask.nc
       IN  IF Len(stack) = 0
           THEN \* downstream did not enter: done
                /\ P1_Return(pkont)
                /\ UNCHANGED <<psession, pnextCalls, ptrace>>
           ELSE IF stack[1].id # id
           THEN \* not responsible
                /\ IF P1_NotResponsible(nextCalled)
                   THEN P1_next(c, ptask.nn, <<>>)
                   ELSE /\ P1_Return(pkont)
                        /\ UNCHANGED pnextCalls
                /\ UNCHANGED <<psession, ptrace>>
           ELSE \* conversation.replayIndex = 0, recurse once
                /\ psession' = [psession EXCEPT !.replayIndex = 0]
                /\ ptask' = P1Task("mw", c,
                                   IF nextCalled THEN "noop" ELSE ptask.nn)
                /\ ptrace' = Append(ptrace, P1Log("replay", c, id))
                /\ UNCHANGED <<pkont, pnextCalls>>
    /\ UNCHANGED <<pmain, perr, pstart>>
    /\ UNCHANGED <<cvars, nvars>>

\* Variant of P1_setPc: on an empty stack nothing is written and next is
\* called.
P1_setPc_unchecked(pc) ==
    IF ~psession.def
    THEN /\ P1Throw("TypeError")
         /\ UNCHANGED <<psession, ptrace>>
    ELSE /\ psession' = IF Len(psession.stack) = 0 THEN psession
                        ELSE [psession EXCEPT !.stack[Len(psession.stack)].pc = pc]
         /\ ptask' = [ptask EXCEPT !.i = @ + 1]
         /\ ptrace' = Append(ptrace, P1Log("setPc", ptask.c, ""))
         /\ UNCHANGED <<pkont, perr>>

\* setPc(pc): throws on an empty stack, else writes pc to the top frame
\* and calls next.
P1_setPc(pc) ==
    IF ~psession.def
    THEN \* ctx.session.conversation is undefined
         /\ P1Throw("TypeError")
         /\ UNCHANGED <<psession, ptrace>>
    ELSE IF Len(psession.stack) = 0
    THEN /\ P1Throw("Fatal: Empty stack")
         /\ UNCHANGED <<psession, ptrace>>
    ELSE /\ psession' = [psession EXCEPT !.stack[Len(psession.stack)].pc = pc]
         /\ ptask' = [ptask EXCEPT !.i = @ + 1]
         /\ ptrace' = Append(ptrace, P1Log("setPc", ptask.c, ""))
         /\ UNCHANGED <<pkont, perr>>

\* run(): the middleware of runTarget one after the other, then the
\* callback () => (leave(), next()).
P1_run ==
    /\ ptask.k = "run"
    /\ IF ptask.i > Len(ptask.chain)
       THEN /\ psession' = [psession EXCEPT !.stack = P1_leave(@)]
            /\ pmain' = IF Len(P1_leave(psession.stack)) = 0 THEN FALSE ELSE pmain
            /\ ptrace' = Append(ptrace, P1Log("leave", ptask.c, ""))
            /\ P1_next(ptask.c, ptask.nn, <<>>)
            /\ UNCHANGED perr
       ELSE LET m == ptask.chain[ptask.i]
            IN  IF m.kind = "setPc"
                THEN /\ P1_setPc(m.pc)
                     /\ UNCHANGED <<pmain, pnextCalls>>
                ELSE \* a user handler; the handler of wait() returns
                     /\ \E callsNext \in IF m.h = "wait" THEN {FALSE} ELSE BOOLEAN :
                            IF callsNext
                            THEN /\ ptask' = [ptask EXCEPT !.i = @ + 1]
                                 /\ UNCHANGED pkont
                            ELSE P1_Return(pkont)
                     /\ ptrace' = Append(ptrace, P1Log("run", ptask.c, m.h))
                     /\ UNCHANGED <<psession, pmain, perr, pnextCalls>>
    /\ UNCHANGED pstart
    /\ UNCHANGED <<cvars, nvars>>

\* Downstream middleware calls ctx.conversation.enter(id).
P1_downstream_enter ==
    /\ ptask.k = "downstream"
    /\ ptask.n < P1MaxControls
    /\ Len(psession.stack) < P1MaxStack
    /\ \E id \in P1EnterIds :
           P1_enter(id, 0, [ptask EXCEPT !.n = @ + 1])
    /\ UNCHANGED <<pnextCalls, pstart>>
    /\ UNCHANGED <<cvars, nvars>>

\* Downstream middleware calls ctx.conversation.exit():
\* delete ctx.session.conversation.
P1_downstream_exit ==
    /\ ptask.k = "downstream"
    /\ ptask.n < P1MaxControls
    /\ psession' = [psession EXCEPT !.def = FALSE]
    /\ ptask' = [ptask EXCEPT !.n = @ + 1]
    /\ ptrace' = Append(ptrace, P1Log("exit", 0, ""))
    /\ UNCHANGED <<pmain, pkont, perr, pnextCalls, pstart>>
    /\ UNCHANGED <<cvars, nvars>>

\* Downstream middleware returns.
P1_downstream_return ==
    /\ ptask.k = "downstream"
    /\ P1_Return(pkont)
    /\ UNCHANGED <<psession, pmain, perr, pnextCalls, ptrace, pstart>>
    /\ UNCHANGED <<cvars, nvars>>

NextP1 ==
    \/ P1_StartEvent
    \/ P1_middleware
    \/ P1_after
    \/ P1_run
    \/ P1_downstream_enter
    \/ P1_downstream_exit
    \/ P1_downstream_return

SpecP1 == InitP1 /\ [][NextP1]_vars

\* Sanity: a run started from a handler's enter never happens, because
\* persisted state exists for the whole run of a tree.
TypeOK ==
    /\ task.k \in {"user", "trackpc", "composer", "next"} => kont # <<>>
    /\ \A j \in 2..Len(kont) : kont[j - 1].k = "scope"

\* ------------------------------------------------------------ observers
InvocationEnded == task.k = "idle"
Runs(h) == Cardinality({j \in 1..Len(trace) : trace[j].op = "run" /\ trace[j].h = h})
Happened(op) == \E j \in 1..Len(trace) : trace[j].op = op
Persisted(id, pcs) ==
    [def |-> TRUE, id |-> id, stack |-> [j \in 1..Len(pcs) |-> StackFrame(pcs[j])]]
NoPredicates(t) == \A s \in 1..Len(t) : \A i \in 1..Len(t[s]) : t[s][i].gate = "none"
UseWaitTree == NoPredicates(tree)

\* ------------------------------------------------------------ C1
\* In TreeBranch branch A is root entry 1 (scope 2 and its wait scope 3)
\* and branch B is root entry 2 (scope 4 and its wait scope 5).
InBranchB(e) == (e.s = 1 /\ e.i = 2) \/ e.s \in {4, 5}
SuspendedInBranchA ==
    /\ tree = TreeBranch
    /\ prevStop = [c |-> "a", s |-> 3, i |-> 1, depth |-> 3]
    /\ startConv = Persisted("a", <<0, 1, 0>>)

\* C1: after an invocation that selected branch A and suspended at its
\* wait leaf, the next invocation invokes, for every event, no handler of
\* branch B while the replay cursor is set, and switches to live mode only
\* at the wait leaf of branch A.
C1_ReplaySkipsBranchB ==
    SuspendedInBranchA =>
        \A j \in 1..Len(trace) :
            /\ (trace[j].rp /\ trace[j].op \in {"inner", "run"}) => ~InBranchB(trace[j])
            /\ trace[j].op = "live" => (trace[j].s = 3 /\ trace[j].i = 1)

\* ------------------------------------------------------------ C2
\* C2: on a tree built with use/wait only, while the replay cursor is set
\* no user handler is run, and the only inner handlers a tracker invokes
\* are nested scopes.
C2_NoUserHandlerDuringReplay ==
    UseWaitTree =>
        \A j \in 1..Len(trace) :
            trace[j].rp =>
                /\ trace[j].op # "run"
                /\ trace[j].op = "inner" =>
                       Entry(trace[j].c, trace[j].s, trace[j].i).kind = "scope"

\* ------------------------------------------------------------ C3
\* C3: while the replay cursor is set, no step of the engine changes the
\* persisted state (no push, no pop, no pc change, no deletion).
C3_ReplayLeavesStateAlone == [][replay.set => session' = session]_vars

\* ------------------------------------------------------------ C4
\* C4: when an invocation ends without error and leaves persisted state
\* behind, the stack is as long as the number of scopes open at the entry
\* whose handler ended the invocation, the root scope included.
C4_DepthInvariant ==
    (InvocationEnded /\ err = "none" /\ session.def) =>
        Len(session.stack) = stopAt.depth

\* ------------------------------------------------------------ C5
EnterAttempted ==
    /\ Len(trace') > Len(trace)
    /\ trace'[Len(trace')].op \in {"enter", "reject"}

\* C5: a call of enter that reaches a conversation with the called
\* identifier while persisted state exists is rejected with an error and
\* changes neither the persisted state nor the active flag nor the replay
\* cursor and runs no entry; the recorded identifier never changes while
\* persisted state exists.
C5_EnterRejectedWhenStateExists ==
    [][ /\ (EnterAttempted /\ session.def) =>
              /\ trace'[Len(trace')].op = "reject"
              /\ err' = "already running"
              /\ task' = Idle
              /\ session' = session
              /\ active' = active
              /\ replay' = replay
        /\ (session.def /\ session'.def) => session'.id = session.id ]_vars

\* A second enter in the invocation whose first enter succeeded is rejected.
C5_Witness ==
    /\ err = "already running"
    /\ session.def
    /\ \E j, k \in 1..Len(trace) :
          j < k /\ trace[j].op = "enter" /\ trace[k].op = "reject"

\* ------------------------------------------------------------ C6
EnterRun == Len(kont) = 1 /\ kont[1].k = "enter"
Applicable(c) ==
    {i \in 1..Len(Entries(c, 1)) :
        Entries(c, 1)[i].gate = "none" \/ Entries(c, 1)[i].gate \in ev}
Min(S) == CHOOSE x \in S : \A y \in S : x <= y

\* C6: after a successful enter, when the first root tracker is about to
\* be evaluated the persisted state is the entered identifier with one
\* frame of pc -1, the active flag is set and no replay cursor exists; and
\* when the invocation has ended, the inner handler of the first
\* applicable root entry has been invoked live after every successful enter.
C6_EnterRunsRootLive ==
    /\ (task.k = "composer" /\ task.s = 1 /\ task.i = 1 /\ EnterRun) =>
          /\ session = Persisted(task.c, <<-1>>)
          /\ active
          /\ ~replay.set
    /\ InvocationEnded =>
          \A j \in 1..Len(trace) :
              (trace[j].op = "enter" /\ Applicable(trace[j].h) # {}) =>
                  \E k \in (j + 1)..Len(trace) :
                      /\ trace[k].op = "inner"
                      /\ ~trace[k].rp
                      /\ trace[k].c = trace[j].h
                      /\ trace[k].s = 1
                      /\ trace[k].i = Min(Applicable(trace[j].h))

\* ------------------------------------------------------------ C7
RootEnd == task.k = "enterDone" \/ (task.k = "convDone" /\ Head(kont).root)

\* C7: the persisted state is deleted exactly by the step taken when the
\* traversal has reached the end of the root scope, the stack is empty at
\* that moment, and an invocation that ends with persisted state ends with
\* a non-empty stack.
C7_Lifecycle ==
    [][ /\ (session.def /\ ~session'.def) <=> RootEnd
        /\ RootEnd => session.stack = <<>>
        /\ (task'.k = "idle" /\ session'.def) => session'.stack # <<>> ]_vars

\* ------------------------------------------------------------ C8
CalledNext(h) ==
    \E j \in 1..Len(trace) : trace[j].op = "run" /\ trace[j].h = h /\ trace[j].nx
Entered(id) ==
    \E j \in 1..Len(trace) : trace[j].op = "enter" /\ trace[j].h = id

\* Scenario A, first invocation: nothing persisted at its start, enter of
\* "a" succeeded, and the invocation has ended without error.
ScenarioA_First ==
    /\ tree = TreeFlat
    /\ ~startConv.def
    /\ Entered("a")
    /\ InvocationEnded
    /\ err = "none"

\* C8 as stated: h1 ran once, h2 did not run, Stack = [{pc:0}].
C8_StackIsOneFrame ==
    ScenarioA_First =>
        /\ Runs("h1") = 1
        /\ Runs("h2") = 0
        /\ session = Persisted("a", <<0>>)

\* C8 amended: h1 ran once, h2 did not run, and the stack has two frames,
\* the root frame and the frame of the scope that was open when the run
\* stopped: [{pc:1},{pc:0}] at the wait marker when h1 called next,
\* [{pc:0},{pc:0}] when h1 returned without calling next.
C8_StackIsTwoFrames ==
    ScenarioA_First =>
        /\ Runs("h1") = 1
        /\ Runs("h2") = 0
        /\ session = IF CalledNext("h1") THEN Persisted("a", <<1, 0>>)
                                         ELSE Persisted("a", <<0, 0>>)

C8_Witness ==
    /\ ScenarioA_First
    /\ CalledNext("h1")
    /\ session = Persisted("a", <<1, 0>>)
    /\ stopAt = [c |-> "a", s |-> 3, i |-> 1, depth |-> 2]

\* ------------------------------------------------------------ C9
\* Scenario A, second invocation: the state the first invocation left at
\* the wait marker, before downstream has called enter again.
ScenarioA_Second ==
    /\ tree = TreeFlat
    /\ startConv = Persisted("a", <<1, 0>>)
    /\ enters = 0

\* C9: the second invocation never runs h1, switches to live mode at the
\* tracker of the wait handler, runs only h2 and runs it live; when it has
\* ended without error h2 has run once, and the persisted state was deleted
\* if h2 called next and is kept (at h2) otherwise.
C9_ScenarioA_Second ==
    ScenarioA_Second =>
        /\ Runs("h1") = 0
        /\ \A j \in 1..Len(trace) :
              /\ trace[j].op = "live" => (trace[j].s = 3 /\ trace[j].i = 1)
              /\ trace[j].op = "run" => (trace[j].h = "h2" /\ ~trace[j].rp)
        /\ (InvocationEnded /\ err = "none" /\ trace # <<>>) =>
              /\ Happened("live")
              /\ Runs("h2") = 1
              /\ CalledNext("h2") => (~session.def /\ Happened("leave"))
              /\ ~CalledNext("h2") => (session = Persisted("a", <<2, 0>>)
                                        /\ ~Happened("leave"))

C9_Witness ==
    /\ ScenarioA_Second
    /\ InvocationEnded
    /\ err = "none"
    /\ Runs("h2") = 1
    /\ CalledNext("h2")
    /\ ~session.def

\* ------------------------------------------------------------ C10
\* Scenario D: a tree without predicates, a root entry at or before the
\* recorded root position removed, and the first invocation after the
\* removal, which resumes conversation "a", has ended.
ScenarioD ==
    /\ NoPredicates(tree)
    /\ removed.s = 1
    /\ removed.age = 1
    /\ startConv.def
    /\ startConv.id = "a"
    /\ startConv.stack # <<>>
    /\ removed.i - 1 <= startConv.stack[1].pc
    /\ InvocationEnded

\* C10: the invocation that resumes after an entry was removed raises an
\* error.
C10_RemovedEntryRaisesError == ScenarioD => err # "none"

\* ------------------------------------------------------------ C11
\* The entries of the tree of conversation c that the invocation has
\* evaluated so far, and the successful enters of c.
TreeSteps(c) ==
    {j \in 1..Len(trace) :
        trace[j].c = c /\ trace[j].op \in {"inner", "skip", "live", "run"}}
EntersOf(c) == {j \in 1..Len(trace) : trace[j].op = "enter" /\ trace[j].h = c}

\* C11: when Conversation.middleware of c runs and no state is persisted,
\* or the persisted identifier is not c, its one step is the call of the
\* next middleware of the pipeline: the persisted state, the replay cursor
\* and the active flag are left as they are and nothing of the tree of c
\* is evaluated; it runs once per event, and whatever is evaluated of the
\* tree of c later in the invocation follows an enter of c.
C11_PassThrough ==
    [][ /\ (task.k = "conv" /\ (~session.def \/ session.id # task.c)) =>
              /\ task' = PipelineNext(task.c)
              /\ session' = session
              /\ replay' = replay
              /\ active' = active
              /\ trace' = trace
              /\ kont' = kont
              /\ \A j \in 1..Len(installed) : installed[j] # task.c
        /\ \A c \in {Pipeline[n] : n \in 1..Len(Pipeline)} :
              (~startConv.def \/ startConv.id # c) =>
                  \A j \in TreeSteps(c) : \E k \in EntersOf(c) : k < j ]_vars

\* Conversation "a" has passed an event through while the state of "b" is
\* persisted: nothing changed and the middleware of "b" is called next.
C11_Witness ==
    /\ session.def
    /\ session.id = "b"
    /\ installed = <<"a">>
    /\ task = Task("conv", "b", 0, 0)
    /\ session = startConv
    /\ ~replay.set
    /\ trace = <<>>

\* ------------------------------------------------------------ C12
\* The user handlers the invocation has run, in order (the handler of a
\* wait marker is not one).
IsUserRun(e) == e.op = "run" /\ e.h # "wait"
UserRuns ==
    LET r == SelectSeq(trace, IsUserRun)
    IN  [j \in 1..Len(r) |-> r[j].h]
EveryHandlerCalledNext ==
    \A j \in 1..Len(trace) : IsUserRun(trace[j]) => trace[j].nx

\* What the k-th invocation of the scenario finds persisted: nothing, then
\* the stack left at the first wait marker, then at the second.
StartOfStep(t, k) ==
    IF k = 1 THEN NoConv
    ELSE IF t = TreeFlat3
    THEN (IF k = 2 THEN Persisted("a", <<1, 0>>) ELSE Persisted("a", <<3, 0>>))
    ELSE (IF k = 2 THEN Persisted("a", <<0, 1, 0>>)
                   ELSE Persisted("a", <<0, 1, 1, 1, 0>>))

\* The k-th invocation of the scenario has ended: it began with the state
\* of step k, the first called enter of "a" and the later ones no enter,
\* and every user handler that ran called next.
StepEnded(t, k) ==
    /\ tree = t
    /\ startConv = StartOfStep(t, k)
    /\ InvocationEnded
    /\ err = "none"
    /\ EveryHandlerCalledNext
    /\ IF k = 1 THEN Entered("a") ELSE (trace # <<>> /\ ~Happened("enter"))

\* Invocation k runs h_k and nothing else, the third one deletes the
\* persisted state and the others leave the state of the next step.
StepBehaviour(t, k) ==
    StepEnded(t, k) =>
        /\ UserRuns = <<<<"h1">>, <<"h2">>, <<"h3">>>>[k]
        /\ session = IF k = 3 THEN NoConv ELSE StartOfStep(t, k + 1)

\* The flat registration behaves so (this holds).
C12_FlatBehaviour == \A k \in 1..3 : StepBehaviour(TreeFlat3, k)

\* C12: the chained registration root.use(h1).wait().use(h2).wait().use(h3)
\* behaves as the flat one does: invocation k after enter runs exactly h_k
\* and the persisted state is deleted in the third invocation.
C12_ChainedBehavesAsFlat == \A k \in 1..3 : StepBehaviour(TreeChain3, k)

\* ------------------------------------------------------------ C13
\* The nesting depth of a step: the number of parents above it.
RECURSIVE NavDepth(_, _)
NavDepth(H, node) ==
    IF H.nodes[node].parent = 0 THEN 0
    ELSE 1 + NavDepth(H, H.nodes[node].parent)
NavCall(op) == calls' = calls + 1 /\ lastCall'.op = op
RunningAt(n) == ntask.k = "handler" /\ target = n

\* C13: when a handler running at a step of nesting depth 3 calls
\* diveOut(2), the call returns and the persisted step is the identifier
\* of the ancestor two levels above that step; and an invocation that
\* finds that identifier persisted selects that ancestor.
C13_DiveOutTwoLevels ==
    [][ \A n \in 1..Len(heap.nodes) :
          NavDepth(heap, n) = 3 =>
            LET ancestor == Nav_walk(heap, n, 2, "parent")
            IN  /\ (RunningAt(n) /\ NavCall("diveOut") /\ lastCall'.n = 2) =>
                      /\ ~lastCall'.thrown
                      /\ nsession'.def
                      /\ nsession'.step = heap.nodes[ancestor].identifier
                /\ (/\ ntask.k = "middleware"
                    /\ nsession.def
                    /\ nsession.active = heap.nodes[NavRoot].identifier
                    /\ nsession.step = heap.nodes[ancestor].identifier) =>
                      target' = ancestor ]_vars

\* ------------------------------------------------------------ C14
\* C14: when a handler running at step s calls forward(n) or back(n),
\* n >= 1, and s has an n-th successor (predecessor), the call returns,
\* the persisted step is the identifier of that sibling, and the run of
\* the current invocation goes on where it was.
C14_ForwardBackSteer ==
    [][ \A op \in {"forward", "back"} :
          (/\ ntask.k = "handler"
           /\ NavCall(op)
           /\ lastCall'.n >= 1
           /\ Nav_walk(heap, target, lastCall'.n,
                       IF op = "forward" THEN "next" ELSE "prev") # 0) =>
              /\ ~lastCall'.thrown
              /\ nsession'.def
              /\ nsession'.step =
                    heap.nodes[Nav_walk(heap, target, lastCall'.n,
                        IF op = "forward" THEN "next" ELSE "prev")].identifier
              /\ ntask' = ntask
              /\ target' = target ]_vars

\* ------------------------------------------------------------ C15
\* A call that asks for a step that does not exist: a walk from the step
\* the handler is running at that leaves the tree, or a switch to an
\* identifier the index of the conversation does not hold.
Misuse(call) ==
    \/ /\ call.op \in {"back", "forward", "diveOut"}
       /\ ntask.k = "handler"
       /\ Nav_walk(heap, target, call.n,
                   IF call.op = "back" THEN "prev"
                   ELSE IF call.op = "forward" THEN "next" ELSE "parent") = 0
    \/ /\ call.op = "switch"
       /\ ~MapHas(heap.maps[heap.nodes[NavRoot].index], call.id)

\* C15: back past the first sibling, forward past the last, diveOut above
\* the top and switch to an unknown identifier throw, and the persisted
\* record after the throw is the record before the call.
C15_MisuseLeavesRecord ==
    [][ (calls' = calls + 1 /\ Misuse(lastCall')) =>
            /\ lastCall'.thrown
            /\ nerr' # "none"
            /\ nsession' = nsession ]_vars

\* A handler's switch to an unknown identifier threw and the record of
\* the running conversation is as it was.
C15_Witness ==
    /\ lastCall.op = "switch"
    /\ lastCall.id = "zz"
    /\ lastCall.thrown
    /\ nerr = "unknown step"
    /\ target # 0
    /\ lastCall.before.def
    /\ nsession = lastCall.before

\* ------------------------------------------------------------ C16
\* C16: a call of leave returns with no persisted record whatever the
\* record was (none included: the second leave changes nothing), it does
\* not end the invocation, and an invocation that finds no record goes
\* straight to the downstream middleware and leaves the record absent.
C16_LeaveIdempotent ==
    [][ /\ NavCall("leave") =>
              /\ nsession' = NoNav
              /\ ~lastCall'.thrown
              /\ nerr' = nerr
              /\ ntask' = ntask
        /\ (ntask.k = "middleware" /\ ~nsession.def) =>
              /\ ntask' = NavTask("downstream", 0)
              /\ nsession' = nsession
              /\ target' = 0 ]_vars

\* The second leave of a handler: it found no record, none exists, and
\* the handler is still running.
C16_Witness ==
    /\ ntask.k = "handler"
    /\ calls = 2
    /\ lastCall.op = "leave"
    /\ ~lastCall.before.def
    /\ ~nsession.def
    /\ nerr = "none"

\* ------------------------------------------------------------ C17
\* A tree built by one chain of use/wait calls: every scope holds its
\* handlers and at most one nested scope, registered last.
Chained(t) ==
    /\ NoPredicates(t)
    /\ \A s \in 1..Len(t) : \A i \in 1..Len(t[s]) :
          t[s][i].kind = "scope" => i = Len(t[s])

\* The invocation that has ended began with the persisted state of a
\* conversation, and the trees of the pipeline are chains.
ResumedChain ==
    /\ InvocationEnded
    /\ startConv.def
    /\ Chained(tree)
    /\ Chained(TreeB)

\* C17: an invocation that resumes a conversation built by chained
\* use/wait calls has, when it ends, switched to live mode: a tracker
\* cleared the replay cursor and set the active flag, and no cursor is
\* left.
C17_ReplayReachesLive ==
    ResumedChain => (Happened("live") /\ ~replay.set)

\* ------------------------------------------------------------ C18
\* A tracker is invoked during replay, the 0-based position of its entry
\* is the target pc of the frame the cursor points at, and that frame is
\* the last frame of the stack.
AtResumePoint ==
    /\ task.k = "trackpc"
    /\ session.def
    /\ replay.set
    /\ replay.frame >= 0
    /\ replay.frame = Len(session.stack) - 1
    /\ task.i - 1 = session.stack[replay.frame + 1].pc

\* C18 as stated: at the resume point the tracker clears the cursor, sets
\* the active flag and invokes the inner handler of its entry.
C18_ResumeInvokesInner ==
    [][ AtResumePoint =>
            /\ ~replay'.set
            /\ active'
            /\ task' = InnerTask(task) ]_vars

\* C18 amended: at the resume point the tracker clears the cursor, sets
\* the active flag and calls next without invoking the inner handler of
\* its entry: the run goes on, live, with the sibling registered after
\* it, and the persisted state is not touched by the step.
C18_ResumeSkipsEntry ==
    [][ AtResumePoint =>
            /\ replay' = NoReplay
            /\ active'
            /\ task' = Task("composer", task.c, task.s, task.i + 1)
            /\ kont' = kont
            /\ session' = session
            /\ trace' = Append(trace, Log("live", task, "", TRUE)) ]_vars

\* The tracker of the wait marker of the flat tree has resumed: the
\* cursor is gone, the flag is set and the wait handler was not run.
C18_Witness ==
    /\ tree = TreeFlat
    /\ startConv = Persisted("a", <<1, 0>>)
    /\ trace # <<>>
    /\ trace[Len(trace)].op = "live"
    /\ task = Task("composer", "a", 3, 2)
    /\ ~replay.set
    /\ active
    /\ Runs("wait") = 0

\* ------------------------------------------------------------ C19
\* C19: a tracker invoked with no replay cursor set records in the
\* innermost frame the 0-based position of its entry among the entries
\* registered in its scope, changes nothing else of the persisted state,
\* and goes on to its inner handler.
C19_LivePcIsPosition ==
    [][ (task.k = "trackpc" /\ session.def /\ ~replay.set /\ session.stack # <<>>) =>
            /\ session' = [session EXCEPT
                              !.stack[Len(session.stack)].pc = task.i - 1]
            /\ task' = InnerTask(task) ]_vars

\* ------------------------------------------------------------ C20
\* The run of the root scope that Conversation.middleware started for an
\* event that found the conversation persisted and the active flag unset,
\* at the first tracker of the root scope that is evaluated.
FirstRootTracker ==
    /\ task.k = "trackpc"
    /\ task.s = 1
    /\ kont = <<[k |-> "conv", c |-> task.c, s |-> 0, i |-> 0, root |-> TRUE]>>
    /\ trace = <<>>

\* C20: an event that finds the state of conversation c persisted and the
\* active flag unset makes the middleware of c start a replay of the root
\* scope; the cursor points at frame 0 when the first root tracker is
\* evaluated; each descent of the replay into a scope adds exactly one to
\* the frame index of the cursor and nothing else changes it; and an
\* invocation that found no persisted state, where a run can only be
\* started by enter, has no cursor at any time.
C20_ImplicitEntry ==
    [][ /\ (task.k = "conv" /\ session.def /\ session.id = task.c /\ ~active) =>
              /\ replay'.set
              /\ task' = Task("shallow", task.c, 1, 0)
        /\ FirstRootTracker => (replay.set /\ replay.frame = 0)
        /\ (task.k = "shallow" /\ session.def /\ replay.set) =>
              replay' = [replay EXCEPT !.frame = @ + 1]
        /\ (replay.set /\ replay'.set /\ replay'.frame # replay.frame) =>
              task.k = "shallow"
        /\ ~startConv.def => ~replay.set ]_vars

\* The replay of the chained tree has descended twice from the root.
C20_Witness ==
    /\ tree = TreeChain
    /\ startConv = Persisted("a", <<0, 1, 0>>)
    /\ task = Task("composer", "a", 3, 1)
    /\ replay = [set |-> TRUE, frame |-> 2, pc |-> 1]
    /\ session = startConv

\* ------------------------------------------------------------ C21

\* A tracker is about to be evaluated during replay with the cursor's
\* position counter above the target pc of the frame the cursor points at.
PcAboveTarget ==
    /\ task.k = "trackpc"
    /\ session.def
    /\ replay.set
    /\ replay.frame >= 0
    /\ replay.frame <= getStackData(session).topFramePos
    /\ replay.pc > getStackData(session).stack[replay.frame + 1].pc

\* C21: a tracker evaluated during replay with a position counter greater
\* than the target pc of the cursor's frame raises an error instead of
\* taking the entry as the match (and on a tree that does not change
\* between invocations no tracker is ever evaluated in that situation).
C21_PcAboveTargetIsError == [][PcAboveTarget => err' # "none"]_vars

\* ------------------------------------------------------------ C22
\* The trackers of both files on session data with and without a frame:
\* the replay-stack engine runs the tree with two predicate-gated
\* branches, and the pc update setPc(1) of conversation "a" is called
\* with session data drawn from StacksForSetPc.
StacksForSetPc == {<<>>, <<P1_StackFrame("a", 0)>>}

InitTrackers ==
    /\ session = NoConv
    /\ tree = TreeBranch
    /\ ev = {}
    /\ replay = NoReplay
    /\ active = FALSE
    /\ installed = <<>>
    /\ task = Idle
    /\ kont = <<>>
    /\ enters = 0
    /\ err = "none"
    /\ trace = <<>>
    /\ startConv = NoConv
    /\ stopAt = NoStop
    /\ prevStop = NoStop
    /\ removed = NoRemoved
    /\ NavQuiet
    /\ \E stack \in StacksForSetPc, def \in BOOLEAN :
           /\ psession = [P1_SessionData(stack) EXCEPT !.def = def]
           /\ pstart = psession
    /\ pmain = TRUE
    /\ ptask = [P1Task("run", 1, "next") EXCEPT
                    !.chain = <<P1TreeA.index[2]>>, !.i = 1]
    /\ pkont = <<>>
    /\ perr = "none"
    /\ pnextCalls = [c \in 1..Len(P1Pipeline) |-> 0]
    /\ ptrace = <<>>

\* The middleware returned by setPc(pc) is called.
P1_pcUpd ==
    /\ ptask.k = "run"
    /\ ptask.i <= Len(ptask.chain)
    /\ ptask.chain[ptask.i].kind = "setPc"
    /\ P1_setPc(ptask.chain[ptask.i].pc)
    /\ UNCHANGED <<pmain, pnextCalls, pstart>>
    /\ UNCHANGED <<cvars, nvars>>

NextTrackers == Next \/ P1_pcUpd

SpecTrackers == InitTrackers /\ [][NextTrackers]_vars

\* A tracker of conversation.ts is about to run with no frame available.
NoFrame == task.k = "trackpc" /\ (~session.def \/ Len(session.stack) = 0)
\* The pc update of part_001 is about to run with no frame available.
P1NoFrame ==
    /\ ptask.k = "run"
    /\ ptask.i <= Len(ptask.chain)
    /\ ptask.chain[ptask.i].kind = "setPc"
    /\ (~psession.def \/ Len(psession.stack) = 0)

\* C22: a tracker invoked when no frame is available (conversation data
\* missing or stack empty) ends the invocation with an error, does not
\* invoke its inner handler or its next, and leaves the persisted state
\* as it was; for trackpc of conversation.ts and for setPc of part_001.
\* (task and ptask change exactly in the steps of their own engine.)
C22_NoFrameIsError ==
    [][/\ (NoFrame /\ task' # task) =>
              (err' # "none" /\ task'.k = "idle" /\ session' = session
               /\ trace' = trace)
       /\ (P1NoFrame /\ ptask' # ptask) =>
              (perr' # "none" /\ ptask'.k = "idle" /\ psession' = psession
               /\ ptrace' = ptrace)]_vars

\* Both trackers have raised their error: trackpc on an empty stack, and
\* setPc on an empty stack.
C22_Witness ==
    /\ err = "TypeError"
    /\ session.def /\ session.stack = <<>>
    /\ perr = "Fatal: Empty stack"
    /\ psession.def /\ psession.stack = <<>>

\* ------------------------------------------------------------ C23

\* The invocation ended by the error of a user handler that ran live.
HandlerFailedLive ==
    /\ InvocationEnded
    /\ err = "handler error"
    /\ trace # <<>>
    /\ trace[Len(trace)].op = "throw"
    /\ ~trace[Len(trace)].rp

\* C23: when a user handler throws during live execution the error ends
\* the invocation, the persisted state is still there, it holds one frame
\* for every scope open around the failing entry (none popped), and the
\* innermost frame holds the pc (the position among its siblings) of the
\* failing entry.
C23_FailureKeepsPosition ==
    HandlerFailedLive =>
        /\ session.def
        /\ session.id = stopAt.c
        /\ Len(session.stack) = stopAt.depth
        /\ session.stack # <<>>
        /\ session.stack[Len(session.stack)].pc = stopAt.i - 1

\* ------------------------------------------------------------ C24
P1Ended == ptask.k = "idle"
P1Happened(op) == \E j \in 1..Len(ptrace) : ptrace[j].op = op

\* C24: at the end of every invocation of part_001, ended normally or by
\* an error, the persisted conversation record holds no replayIndex.
C24_ReplayIndexNotPersisted ==
    (P1Ended /\ psession.def) => psession.replayIndex = P1NoIndex

\* ------------------------------------------------------------ C25
\* Conversation.middleware is about to run with ctx[main] set.
P1Recursion == ptask.k = "mw" /\ psession.def /\ pmain

\* C25: Conversation.middleware reached while ctx[main] is set makes a
\* function call: it raises no error, pushes the frame {id, pc: 0} and
\* goes on with its own chain.
C25_RecursionIsCall ==
    [][(P1Recursion /\ ptask' # ptask) =>
          /\ perr' = "none"
          /\ psession'.stack =
                 Append(psession.stack, P1_StackFrame(P1Pipeline[ptask.c], 0))
          /\ ptask'.k = "run"
          /\ ptask'.chain = P1TreeOf(ptask.c).composer]_vars

\* ------------------------------------------------------------ C26
\* Downstream entered conversation id, and made no other control call, in
\* an invocation that began with an empty stack, and the invocation is
\* over.
P1EnteredFromDownstream(id) ==
    /\ P1Ended
    /\ pstart.def /\ pstart.stack = <<>> /\ pstart.replayIndex = P1NoIndex
    /\ \E j \in 1..Len(ptrace) :
           /\ ptrace[j] = P1Log("enter", 0, id)
           /\ \A i \in 1..Len(ptrace) : (ptrace[i].c = 0) => (i = j)

\* C26: when downstream enters this conversation on an empty stack, the
\* conversation replays the stack and begins its chain in the same
\* invocation (its first pc update runs), and no error is raised.
C26_EntryFromDownstream ==
    \A id \in {P1Pipeline[c] : c \in 1..Len(P1Pipeline)} :
        P1EnteredFromDownstream(id) =>
            /\ perr = "none"
            /\ P1Happened("replay")
            /\ P1Happened("setPc")

\* ------------------------------------------------------------ C27
\* C27: in one invocation of part_001 every conversation calls the `next`
\* it was given at most once, on every path through its middleware.
C27_NextAtMostOnce ==
    \A c \in 1..Len(P1Pipeline) : pnextCalls[c] <= 1

\* Conversation "a" called next on an empty stack, was entered from
\* downstream and started its replay; it did not call next again.
C27_Witness ==
    /\ P1EnteredFromDownstream("a")
    /\ P1Happened("replay")
    /\ pnextCalls[1] = 1

\* ------------------------------------------------------------ C28
\* Conversation.middleware of the tree is about to take its step.
NavDispatching == ntask.k = "middleware" /\ ntask' # ntask

\* The steps of the tree that carry the identifier and have handlers.
StepsNamed(step) ==
    {n \in 1..Len(heap.nodes) :
        heap.nodes[n].identifier = step /\ heap.nodes[n].mw.def}

\* C28: with a persisted record that names the domain of the tree,
\* middleware() selects the step the record names (0: the first step of
\* the domain) and runs its handler chain; without a record, or with
\* another domain active, it selects no step and calls next.
C28_DispatchRunsRecordedStep ==
    [][NavDispatching =>
          IF ~nsession.def \/ nsession.active # heap.nodes[NavRoot].identifier
          THEN ntask'.k = "downstream" /\ target' = 0 /\ nerr' = "none"
          ELSE IF nsession.step = NumId(0)
          THEN target' = heap.nodes[NavRoot].head /\ nerr' = "none"
          ELSE StepsNamed(nsession.step) # {} =>
                   (target' \in StepsNamed(nsession.step) /\ nerr' = "none")]_vars

\* ------------------------------------------------------------ C29
\* The record names the domain of the tree, and the step it names is not
\* in the index, or has no handlers, or the domain has no first step.
NavDesync ==
    /\ nsession.def
    /\ nsession.active = heap.nodes[NavRoot].identifier
    /\ IF nsession.step = NumId(0)
       THEN heap.nodes[NavRoot].head = 0
       ELSE LET index == heap.maps[heap.nodes[NavRoot].index]
            IN  \/ ~MapHas(index, nsession.step)
                \/ \E j \in 1..Len(index) :
                       /\ index[j].key = nsession.step
                       /\ ~heap.nodes[index[j].val].mw.def

\* C29: on a structural desynchronization (persisted step not in the
\* index, selected step without handlers, domain without a first step)
\* middleware() ends the invocation with an error: no step is selected,
\* no handler runs, next is not called, the record stays as it was.
C29_DesyncIsError ==
    [][(NavDispatching /\ NavDesync) =>
          /\ nerr' # "none"
          /\ ntask'.k = "idle"
          /\ target' = 0
          /\ nsession' = nsession]_vars

\* The invocation ended by the error of a step that is not in the index.
C29_Witness ==
    /\ nerr = "Cannot find"
    /\ ntask.k = "idle"
    /\ NavDesync

\* ------------------------------------------------------------ C30
\* The index shared by the tree: the Map of the object given to bot.use.
SharedIndex == heap.maps[heap.nodes[NavRoot].index]
NodesWithId == {n \in 1..Len(heap.nodes) : heap.nodes[n].identifier # Undefined}

\* C30: in the tree the builder calls made, every node that carries an
\* identifier is what the shared index returns for that identifier, and
\* no two nodes carry the same identifier.
C30_IndexComplete ==
    /\ \A n \in NodesWithId :
           MapGet(SharedIndex, heap.nodes[n].identifier) = n
    /\ \A n, m \in NodesWithId :
           heap.nodes[n].identifier = heap.nodes[m].identifier => n = m

\* ------------------------------------------------------------ C31

\* A tracker is about to read the frame the cursor points at:
\* const replayFrame = stack[replayPos.frame]; replayFrame.pc
ReadsCursorFrame == task.k = "trackpc" /\ session.def /\ replay.set

\* C31: whenever a tracker reads the frame the replay cursor points at,
\* the cursor's frame index is an index of the stack
\* (0 <= frame <= stack length - 1), for every tree that does not change
\* between invocations.
C31_CursorInBounds ==
    ReadsCursorFrame =>
        (0 <= replay.frame /\ replay.frame <= Len(session.stack) - 1)

\* ------------------------------------------------------------ C32

\* The step is a successful ctx.conversation.enter.
EnterSucceeded ==
    /\ trace' # <<>>
    /\ trace' # trace
    /\ trace'[Len(trace')].op = "enter"

\* C32: the replay cursor and the active flag are never both set on the
\* context; a replay starts only while the active flag is unset; and the
\* active flag is set only by a successful enter or in the step that
\* deletes the cursor.
C32_ModeExclusion ==
    [][/\ ~(replay'.set /\ active')
       /\ (~replay.set /\ replay'.set) => ~active
       /\ (~active /\ active') =>
              (EnterSucceeded \/ (replay.set /\ ~replay'.set))]_vars

\* ------------------------------------------------------------ C33

\* The invocation resumed a conversation and reached the end of its tree:
\* the callback of Conversation.middleware ran leave().
ResumedToEnd ==
    /\ startConv.def
    /\ \E j \in 1..Len(trace) : trace[j].op = "leave" /\ trace[j].c = startConv.id

\* After that, downstream entered a conversation.
EnteredAfterEnd ==
    /\ startConv.def
    /\ \E j \in 1..(Len(trace) - 1) :
           /\ trace[j].op = "leave" /\ trace[j].c = startConv.id
           /\ trace[j + 1].op = "enter"

InstalledIds == {installed[j] : j \in 1..Len(installed)}

\* This step is a call of ctx.conversation.enter.
EnterCalled ==
    /\ trace' # <<>>
    /\ trace' # trace
    /\ trace'[Len(trace')].op \in {"enter", "reject", "noop"}

\* C34: a call enter(x) whose identifier x is not the one of the
\* Conversation that installed the controls is answered by the enter of
\* the Conversation with identifier x that ran earlier on the same event,
\* with exactly the effect of that enter (rejection while a conversation
\* is persisted, else state {id: x, stack: []}, the flag, and the handler
\* of x); when no Conversation that ran earlier has identifier x the call
\* changes neither the persisted state nor the flag nor the cursor, runs
\* no handler and raises no error.
C34_EnterDelegation ==
    [][EnterCalled =>
          LET r == trace'[Len(trace')]
          IN  /\ (r.h \notin InstalledIds) =>
                     /\ r.op = "noop"
                     /\ session' = session /\ active' = active
                     /\ replay' = replay /\ err' = err
                     /\ task'.k \notin {"shallow", "composer", "trackpc", "user"}
              /\ (r.h \in InstalledIds) =>
                     /\ r.op # "noop"
                     /\ (r.op = "reject") =>
                            (session.def /\ session' = session /\ active' = active
                             /\ err' = "already running")
                     /\ (r.op = "enter") =>
                            (/\ ~session.def
                             /\ session' = [def |-> TRUE, id |-> r.h, stack |-> <<>>]
                             /\ active'
                             /\ task' = Task("shallow", r.h, 1, 0)
                             /\ err' = err)]_vars

\* An enter for an identifier other than the one of the newest controls
\* was delegated and started that conversation, and an enter for an
\* identifier no Conversation has was a no-op in the same invocation.
C34_Witness ==
    /\ installed # <<>>
    /\ \E j \in 1..Len(trace) :
           /\ trace[j].op = "enter"
           /\ trace[j].h \in InstalledIds
           /\ trace[j].h # Head(installed)
    /\ \E j \in 1..Len(trace) :
           trace[j].op = "noop" /\ trace[j].h \notin InstalledIds

====
